---- MODULE Spec2Model ----
(***************************************************************************)
(* Model of the banking ledger of BankApp.py: the entity classes           *)
(* (Customer, Account, SavingAccount, CurrentAccount, Transaction), the    *)
(* BankSystem engine and the three JSON files it writes through to.        *)
(*                                                                         *)
(* Money is an integer count of the unit  10 currency units / Scale , so   *)
(* Money(4) is the amount 40.0 and Money(-1) the amount -10.0.  Rates are  *)
(* integer percents (2 is 0.02).  Scale makes every interest computation   *)
(* of a run exact.  Amounts are finite decimals (nan and inf are outside   *)
(* the model).                                                             *)
(*                                                                         *)
(* A Python dict is a sequence of entries [k, v] in insertion order.       *)
(***************************************************************************)
EXTENDS Integers, Sequences, FiniteSets, TLC

VARIABLES
    customers,          \* BankSystem.customers: dict customer_id -> Customer
    accounts,           \* BankSystem.accounts: dict account_number -> Account
    transactions,       \* BankSystem.transactions: list of Transaction
    interest_rate,      \* the class attribute SavingAccount.interest_rate
    customers_file,     \* content of data/customers.json
    accounts_file,      \* content of data/accounts.json
    transactions_file,  \* content of data/transactions.json
    pc,                 \* where the running operation stands ("idle": none)
    result,             \* outcome of the latest operation
    writes,             \* files written by the latest operation, in order
    clock,              \* reading of datetime.now() at the next Transaction
    nops,               \* mutating operations begun, and processes ended inside one, so far
    naccrue             \* add_interest_to_savings calls so far

vars == <<customers, accounts, transactions, interest_rate, customers_file,
          accounts_file, transactions_file, pc, result, writes, clock, nops,
          naccrue>>

memory == <<customers, accounts, transactions>>
disk == <<customers_file, accounts_file, transactions_file>>

----------------------------------------------------------------------------
(* Bounds and input sets *)

MaxOps == 4
MaxAccrue == 2

Scale == 100 ^ MaxAccrue
Money(n) == n * Scale

DefaultRate == 2

Names == {"Alice"}
Addresses == {"123 St"}
Contacts == {"555-0100"}
InitialDeposits == {Money(-1), Money(0), Money(10)}
OverdrawLimits == {Money(0), Money(5)}
DepositAmounts == {Money(-1), Money(0), Money(5)}
WithdrawalAmounts == {Money(-1), Money(0), Money(1), Money(2), Money(4), Money(20)}
Amounts == DepositAmounts \cup WithdrawalAmounts

\* Arguments <<account_type, initial_deposit, overdraw_limit>> of create_account:
\* the overdraw limit is 0 unless the type is 'current' (create_accounts)
CreateAccountArgs ==
    {<<"saving", d, 0>> : d \in InitialDeposits}
        \cup {<<"current", d, l>> : d \in InitialDeposits, l \in OverdrawLimits}
        \cup {<<"savings", Money(10), 0>>, <<"basic", Money(10), 0>>}

\* Arguments <<transaction_type, amount>> of make_transaction
MakeTransactionArgs ==
    {<<"deposit", a>> : a \in DepositAmounts}
        \cup {<<"withdrawal", a>> : a \in WithdrawalAmounts}
        \cup {<<"transfer", Money(5)>>}

----------------------------------------------------------------------------
(* Python built-ins *)

\* mutant: "{n}", the zero fill is missing
ZeroPad_NoFill(n, width) == ToString(n)

\* "{n:0{width}d}"
ZeroPad(n, width) ==
    LET s == ToString(n)
        RECURSIVE pad(_)
        pad(t) == IF Len(t) >= width THEN t ELSE pad("0" \o t)
    IN pad(s)

Keys(d) == {d[i].k : i \in DOMAIN d}

DictGet(d, key) ==
    LET i == CHOOSE i \in DOMAIN d : d[i].k = key IN d[i].v

\* d[key] = value: an existing key keeps its position
DictSet(d, key, value) ==
    IF key \in Keys(d)
    THEN [i \in DOMAIN d |-> IF d[i].k = key THEN [k |-> key, v |-> value] ELSE d[i]]
    ELSE Append(d, [k |-> key, v |-> value])

\* list(d.values())
Values(d) == [i \in DOMAIN d |-> d[i].v]

----------------------------------------------------------------------------
(* Outcomes: a call returns a value or raises ValueError(message) *)

\* An operation's outcome: raised is the message or None; the value returned
\* is an identifier (of the Customer, Account or Transaction returned), a
\* balance or a list of transactions
None == "None"
NoValue == [id |-> None, balance |-> 0, history |-> <<>>]
ReturnNone == [raised |-> None, value |-> NoValue]
ReturnId(id) == [raised |-> None, value |-> [NoValue EXCEPT !.id = id]]
ReturnBalance(balance) == [raised |-> None, value |-> [NoValue EXCEPT !.balance = balance]]
ReturnHistory(history) == [raised |-> None, value |-> [NoValue EXCEPT !.history = history]]
Raise(message) == [raised |-> message, value |-> NoValue]

InvalidAmount == {"Deposit amount must be positive.", "Withdrawal amount must be positive."}
InsufficientFunds == "Insufficient funds."
OverdrawLimitExceeded == "Withdrawal exceeds overdraw limit."
CustomerNotFound == "Customer does not exist."
AccountNotFound == "Account not found."
InvalidAccountType == "Invalid account type."
InvalidTransactionType == "Invalid transaction type."
ValidationErrors ==
    InvalidAmount \cup {InsufficientFunds, OverdrawLimitExceeded, CustomerNotFound,
                        AccountNotFound, InvalidAccountType, InvalidTransactionType}

----------------------------------------------------------------------------
(* Customer *)

Customer(customer_id, name, address, contact) ==
    [customer_id |-> customer_id, name |-> name, address |-> address,
     contact |-> contact, accounts |-> <<>>]

Customer_to_dict(self) ==
    [customer_id |-> self.customer_id, name |-> self.name, address |-> self.address,
     contact |-> self.contact, accounts |-> self.accounts]

Customer_from_dict(data) ==
    LET cust == Customer(data.customer_id, data.name, data.address, data.contact)
    IN [cust EXCEPT !.accounts =
            IF "accounts" \in DOMAIN data THEN data.accounts ELSE <<>>]

\* mutant: customer.accounts.insert(0, account_number)
accounts_append_AtFront(self, account_number) ==
    [self EXCEPT !.accounts = <<account_number>> \o @]

\* customer.accounts.append(account_number)
accounts_append(self, account_number) ==
    [self EXCEPT !.accounts = Append(@, account_number)]

----------------------------------------------------------------------------
(* Account, SavingAccount, CurrentAccount.  An object carries its class in *)
(* cls; a SavingAccount has no interest_rate of its own and reads the      *)
(* class attribute.                                                        *)

Account(account_number, customer_id, balance) ==
    [cls |-> "Account", account_number |-> account_number,
     customer_id |-> customer_id, balance |-> balance]

\* mutant: the balance is not passed on to Account.__init__ (balance=0.0)
SavingAccount_DefaultBalance(account_number, customer_id, balance) ==
    [Account(account_number, customer_id, 0) EXCEPT !.cls = "SavingAccount"]

SavingAccount(account_number, customer_id, balance) ==
    [Account(account_number, customer_id, balance) EXCEPT !.cls = "SavingAccount"]

CurrentAccount(account_number, customer_id, balance, overdraw_limit) ==
    [cls |-> "CurrentAccount", account_number |-> account_number,
     customer_id |-> customer_id, balance |-> balance,
     overdraw_limit |-> overdraw_limit]

\* A method call on an object: what it raised (or None) and the object after
\* the call, which the method changes in place
Raised(message, self) == [raised |-> message, self |-> self]
Returned(self) == [raised |-> None, self |-> self]

\* mutant: "self.balance = amount" for "self.balance += amount"
Account_deposit_Assigns(self, amount) ==
    IF amount <= 0 THEN Raised("Deposit amount must be positive.", self)
    ELSE Returned([self EXCEPT !.balance = amount])

Account_deposit(self, amount) ==
    IF amount <= 0 THEN Raised("Deposit amount must be positive.", self)
    ELSE Returned([self EXCEPT !.balance = @ + amount])

\* mutant: the funds check is missing
Account_withdraw_Unchecked(self, amount) ==
    IF amount <= 0 THEN Raised("Withdrawal amount must be positive.", self)
    ELSE Returned([self EXCEPT !.balance = @ - amount])

\* mutant: the balance is debited before the funds check raises
Account_withdraw_DebitsFirst(self, amount) ==
    IF amount <= 0 THEN Raised("Withdrawal amount must be positive.", self)
    ELSE IF amount > self.balance
         THEN Raised("Insufficient funds.", [self EXCEPT !.balance = @ - amount])
    ELSE Returned([self EXCEPT !.balance = @ - amount])

Account_withdraw(self, amount) ==
    IF amount <= 0 THEN Raised("Withdrawal amount must be positive.", self)
    ELSE IF amount > self.balance THEN Raised("Insufficient funds.", self)
    ELSE Returned([self EXCEPT !.balance = @ - amount])

\* mutant: ">=" for ">" in the overdraw check
CurrentAccount_withdraw_Strict(self, amount) ==
    IF amount <= 0 THEN Raised("Withdrawal amount must be positive.", self)
    ELSE IF amount >= self.balance + self.overdraw_limit
         THEN Raised("Withdrawal exceeds overdraw limit.", self)
    ELSE Returned([self EXCEPT !.balance = @ - amount])

CurrentAccount_withdraw(self, amount) ==
    IF amount <= 0 THEN Raised("Withdrawal amount must be positive.", self)
    ELSE IF amount > self.balance + self.overdraw_limit
         THEN Raised("Withdrawal exceeds overdraw limit.", self)
    ELSE Returned([self EXCEPT !.balance = @ - amount])

\* method resolution of account.deposit / account.withdraw
deposit(self, amount) == Account_deposit(self, amount)

withdraw(self, amount) ==
    IF self.cls = "CurrentAccount" THEN CurrentAccount_withdraw(self, amount)
    ELSE Account_withdraw(self, amount)

get_balance(self) == self.balance

\* mutant: "self.balance = interest" for "self.balance += interest"
add_monthly_interest_Assigns(self, rate) ==
    LET interest == (self.balance * rate) \div 100
    IN [self EXCEPT !.balance = interest]

\* SavingAccount.add_monthly_interest with the class attribute at rate
add_monthly_interest(self, rate) ==
    LET interest == (self.balance * rate) \div 100
    IN [self EXCEPT !.balance = @ + interest]

Account_to_dict(self) ==
    [account_number |-> self.account_number, customer_id |-> self.customer_id,
     balance |-> self.balance, type |-> "Account"]

SavingAccount_to_dict(self, rate) ==
    [Account_to_dict(self) EXCEPT !.type = "SavingAccount"] @@ [interest_rate |-> rate]

CurrentAccount_to_dict(self) ==
    [Account_to_dict(self) EXCEPT !.type = "CurrentAccount"]
        @@ [overdraw_limit |-> self.overdraw_limit]

\* method resolution of acc.to_dict(); rate is SavingAccount.interest_rate
to_dict(self, rate) ==
    CASE self.cls = "SavingAccount" -> SavingAccount_to_dict(self, rate)
      [] self.cls = "CurrentAccount" -> CurrentAccount_to_dict(self)
      [] OTHER -> Account_to_dict(self)

Account_from_dict(data) ==
    Account(data.account_number, data.customer_id, data.balance)

\* SavingAccount.from_dict: returns the account and assigns the class attribute
SavingAccount_from_dict(data, rate) ==
    [account |-> SavingAccount(data.account_number, data.customer_id, data.balance),
     interest_rate |-> IF "interest_rate" \in DOMAIN data THEN data.interest_rate
                       ELSE rate]

CurrentAccount_from_dict(data) ==
    CurrentAccount(data.account_number, data.customer_id, data.balance,
                   IF "overdraw_limit" \in DOMAIN data THEN data.overdraw_limit ELSE 0)

----------------------------------------------------------------------------
(* Transaction *)

Transaction(transaction_id, account_number, transaction_type, amount, now) ==
    [transaction_id |-> transaction_id, timestamp |-> now,
     account_number |-> account_number, transaction_type |-> transaction_type,
     amount |-> amount]

Transaction_to_dict(self) ==
    [transaction_id |-> self.transaction_id, timestamp |-> self.timestamp,
     account_number |-> self.account_number,
     transaction_type |-> self.transaction_type, amount |-> self.amount]

\* mutant: the stored timestamp is not put back
Transaction_from_dict_StampsNow(data, now) ==
    Transaction(data.transaction_id, data.account_number, data.transaction_type,
                data.amount, now)

Transaction_from_dict(data, now) ==
    LET trans == Transaction(data.transaction_id, data.account_number,
                             data.transaction_type, data.amount, now)
    IN [trans EXCEPT !.timestamp = data.timestamp]

----------------------------------------------------------------------------
(* BankSystem: loading and saving *)

load_customers(data) ==
    LET RECURSIVE build(_, _)
        build(i, d) ==
            IF i > Len(data) THEN d
            ELSE build(i + 1, DictSet(d, data[i].customer_id, Customer_from_dict(data[i])))
    IN build(1, <<>>)

save_customers(custs) ==
    [i \in DOMAIN Values(custs) |-> Customer_to_dict(Values(custs)[i])]

\* load_accounts in a fresh process: the class attribute starts at its default
\* and every SavingAccount.from_dict assigns it
load_accounts(data) ==
    LET RECURSIVE loop(_, _, _)
        loop(i, accs, rate) ==
            IF i > Len(data) THEN [accounts |-> accs, interest_rate |-> rate]
            ELSE LET acc_data == data[i] IN
                 IF acc_data.type = "SavingAccount"
                 THEN LET r == SavingAccount_from_dict(acc_data, rate)
                      IN loop(i + 1, DictSet(accs, acc_data.account_number, r.account),
                              r.interest_rate)
                 ELSE IF acc_data.type = "CurrentAccount"
                 THEN loop(i + 1, DictSet(accs, acc_data.account_number,
                                          CurrentAccount_from_dict(acc_data)), rate)
                 ELSE loop(i + 1, DictSet(accs, acc_data.account_number,
                                          Account_from_dict(acc_data)), rate)
    IN loop(1, <<>>, DefaultRate)

save_accounts(accs, rate) ==
    [i \in DOMAIN Values(accs) |-> to_dict(Values(accs)[i], rate)]

load_transactions(data, now) ==
    [i \in DOMAIN data |-> Transaction_from_dict(data[i], now)]

\* mutant: only the newest transaction is written
save_transactions_OnlyNewest(txns) ==
    IF txns = <<>> THEN <<>> ELSE <<Transaction_to_dict(txns[Len(txns)])>>

save_transactions(txns) ==
    [i \in DOMAIN txns |-> Transaction_to_dict(txns[i])]

\* self.accounts.get(account_number, None); NoAccount is the None it returns
NoAccount == [cls |-> "NoneType"]

get_account(account_number) ==
    IF account_number \in Keys(accounts) THEN DictGet(accounts, account_number)
    ELSE NoAccount

----------------------------------------------------------------------------
(* Initial states *)

\* BankSystem() on an empty data directory
Init ==
    /\ customers_file = <<>>
    /\ accounts_file = <<>>
    /\ transactions_file = <<>>
    /\ customers = load_customers(customers_file)
    /\ accounts = load_accounts(accounts_file).accounts
    /\ interest_rate = load_accounts(accounts_file).interest_rate
    /\ transactions = load_transactions(transactions_file, 1)
    /\ pc = "idle"
    /\ result = [op |-> "__init__", raised |-> None, value |-> NoValue]
    /\ writes = <<>>
    /\ clock = 1
    /\ nops = 0
    /\ naccrue = 0

\* Records an accounts.json may hold for account number n of customer C0001:
\* the optional fields interest_rate and overdraw_limit present or absent
StoredAccounts(n) ==
    LET base(type, balance) ==
            [account_number |-> "A" \o ZeroPad(n, 6), customer_id |-> "C0001",
             balance |-> balance, type |-> type]
    IN {base("Account", Money(4)), base("SavingAccount", Money(10))}
         \cup {base("SavingAccount", Money(10)) @@ [interest_rate |-> r] : r \in {2, 5}}
         \cup {base("CurrentAccount", Money(0))}
         \cup {base("CurrentAccount", Money(0)) @@ [overdraw_limit |-> Money(5)]}

StoredAccountFiles ==
    {<<a>> : a \in StoredAccounts(1)}
        \cup {<<a, b>> : a \in StoredAccounts(1), b \in StoredAccounts(2)}

\* BankSystem() on a data directory left by earlier runs: one customer and
\* one or two accounts, no transactions
InitStore ==
    /\ accounts_file \in StoredAccountFiles
    /\ customers_file =
           <<[customer_id |-> "C0001", name |-> "Alice", address |-> "123 St",
              contact |-> "555-0100",
              accounts |-> [i \in DOMAIN accounts_file |-> accounts_file[i].account_number]]>>
    /\ transactions_file = <<>>
    /\ customers = load_customers(customers_file)
    /\ accounts = load_accounts(accounts_file).accounts
    /\ interest_rate = load_accounts(accounts_file).interest_rate
    /\ transactions = load_transactions(transactions_file, 1)
    /\ pc = "idle"
    /\ result = [op |-> "__init__", raised |-> None, value |-> NoValue]
    /\ writes = <<>>
    /\ clock = 1
    /\ nops = Len(customers_file) + Len(accounts_file)
    /\ naccrue = 0

----------------------------------------------------------------------------
(* BankSystem: operations.  An operation runs from pc = "idle" and its     *)
(* file writes are the steps that follow it; the process may stop between  *)
(* any two steps (Restart).                                                *)

Begin(op, outcome) ==
    /\ result' = [op |-> op, raised |-> outcome.raised, value |-> outcome.value]
    /\ writes' = <<>>

create_customer(name, address, contact) ==
    /\ pc = "idle"
    /\ nops < MaxOps
    /\ LET customer_id == "C" \o ZeroPad(Len(customers) + 1, 4)
           customer == Customer(customer_id, name, address, contact)
       IN /\ customers' = DictSet(customers, customer_id, customer)
          /\ Begin("create_customer", ReturnId(customer_id))
    /\ pc' = "create_customer:save_customers"
    /\ nops' = nops + 1
    /\ UNCHANGED <<accounts, transactions, interest_rate, disk, clock, naccrue>>

\* mutant: 'basic' opens an account of the base class
NewAccount_AcceptsBasic(account_type, account_number, customer_id, deposit0, limit) ==
    IF account_type = "saving"
    THEN Returned(SavingAccount(account_number, customer_id, deposit0))
    ELSE IF account_type = "current"
    THEN Returned(CurrentAccount(account_number, customer_id, deposit0, limit))
    ELSE IF account_type = "basic"
    THEN Returned(Account(account_number, customer_id, deposit0))
    ELSE Raised("Invalid account type.", NoAccount)

\* create_account's choice of the class to construct
NewAccount(account_type, account_number, customer_id, initial_deposit, overdraw_limit) ==
    IF account_type = "saving"
    THEN Returned(SavingAccount(account_number, customer_id, initial_deposit))
    ELSE IF account_type = "current"
    THEN Returned(CurrentAccount(account_number, customer_id, initial_deposit,
                                 overdraw_limit))
    ELSE Raised("Invalid account type.", NoAccount)

\* mutant: the account number counts the owner's accounts
create_account_checks_NumbersPerOwner(customer_id, account_type, deposit0, limit) ==
    IF customer_id \notin Keys(customers)
    THEN Raised("Customer does not exist.", NoAccount)
    ELSE LET owner == DictGet(customers, customer_id)
             account_number == "A" \o ZeroPad(Len(owner.accounts) + 1, 6)
         IN NewAccount(account_type, account_number, customer_id, deposit0, limit)

\* create_account up to the point where it changes the collections: what it
\* raises, or the account it has constructed
create_account_checks(customer_id, account_type, initial_deposit, overdraw_limit) ==
    IF customer_id \notin Keys(customers)
    THEN Raised("Customer does not exist.", NoAccount)
    ELSE LET account_number == "A" \o ZeroPad(Len(accounts) + 1, 6)
         IN NewAccount(account_type, account_number, customer_id, initial_deposit,
                       overdraw_limit)

create_account(customer_id, account_type, initial_deposit, overdraw_limit) ==
    /\ pc = "idle"
    /\ nops < MaxOps
    /\ LET made == create_account_checks(customer_id, account_type, initial_deposit,
                                         overdraw_limit) IN
       IF made.raised # None
       THEN /\ Begin("create_account", Raise(made.raised))
            /\ UNCHANGED <<memory, pc, nops>>
       ELSE LET account == made.self
                account_number == account.account_number
                owner == DictGet(customers, customer_id)
            IN      /\ accounts' = DictSet(accounts, account_number, account)
                    /\ customers' = DictSet(customers, customer_id,
                                            accounts_append(owner, account_number))
                    /\ Begin("create_account", ReturnId(account_number))
                    /\ pc' = "create_account:save_accounts"
                    /\ nops' = nops + 1
                    /\ UNCHANGED transactions
    /\ UNCHANGED <<interest_rate, disk, clock, naccrue>>

make_transaction(account_number, transaction_type, amount) ==
    /\ pc = "idle"
    /\ nops < MaxOps
    /\ LET account == get_account(account_number) IN
       IF account = NoAccount
       THEN /\ Begin("make_transaction", Raise("Account not found."))
            /\ UNCHANGED <<memory, pc, nops, clock>>
       ELSE IF transaction_type \notin {"deposit", "withdrawal"}
       THEN /\ Begin("make_transaction", Raise("Invalid transaction type."))
            /\ UNCHANGED <<memory, pc, nops, clock>>
       ELSE LET outcome == IF transaction_type = "deposit"
                           THEN deposit(account, amount)
                           ELSE withdraw(account, amount) IN
            IF outcome.raised # None
            THEN /\ Begin("make_transaction", Raise(outcome.raised))
                 /\ accounts' = DictSet(accounts, account_number, outcome.self)
                 /\ UNCHANGED <<customers, transactions, pc, nops, clock>>
            ELSE LET transaction_id == "T" \o ZeroPad(Len(transactions) + 1, 8)
                     transaction == Transaction(transaction_id, account_number,
                                                transaction_type, amount, clock)
                 IN /\ accounts' = DictSet(accounts, account_number, outcome.self)
                    /\ transactions' = Append(transactions, transaction)
                    /\ Begin("make_transaction", ReturnId(transaction_id))
                    /\ pc' = "make_transaction:save_accounts"
                    /\ nops' = nops + 1
                    /\ clock' = clock + 1
                    /\ UNCHANGED customers
    /\ UNCHANGED <<interest_rate, disk, naccrue>>

check_balance(account_number) ==
    /\ pc = "idle"
    /\ nops < MaxOps
    /\ LET account == get_account(account_number) IN
       IF account = NoAccount
       THEN Begin("check_balance", Raise("Account not found."))
       ELSE Begin("check_balance", ReturnBalance(get_balance(account)))
    /\ UNCHANGED <<memory, interest_rate, disk, pc, clock, nops, naccrue>>

\* mutant: the filter on account_number is missing
transaction_history_WholeLog(account_number) ==
    /\ pc = "idle"
    /\ nops <= MaxOps
    /\ Begin("transaction_history", ReturnHistory(transactions))
    /\ UNCHANGED <<memory, interest_rate, disk, pc, clock, nops, naccrue>>

\* the history is also read after the last operation that MaxOps allows
transaction_history(account_number) ==
    /\ pc = "idle"
    /\ nops <= MaxOps
    /\ Begin("transaction_history",
             ReturnHistory(SelectSeq(transactions,
                                     LAMBDA t : t.account_number = account_number)))
    /\ UNCHANGED <<memory, interest_rate, disk, pc, clock, nops, naccrue>>

\* mutant: the isinstance(account, SavingAccount) test is missing
add_interest_to_savings_EveryAccount ==
    /\ pc = "idle"
    /\ nops < MaxOps
    /\ naccrue < MaxAccrue
    /\ accounts' = [i \in DOMAIN accounts |->
                      [accounts[i] EXCEPT !.v = add_monthly_interest(@, interest_rate)]]
    /\ Begin("add_interest_to_savings", ReturnNone)
    /\ pc' = "add_interest_to_savings:save_accounts"
    /\ nops' = nops + 1
    /\ naccrue' = naccrue + 1
    /\ UNCHANGED <<customers, transactions, interest_rate, disk, clock>>

add_interest_to_savings ==
    /\ pc = "idle"
    /\ nops < MaxOps
    /\ naccrue < MaxAccrue
    /\ accounts' = [i \in DOMAIN accounts |->
                      IF accounts[i].v.cls = "SavingAccount"
                      THEN [accounts[i] EXCEPT !.v = add_monthly_interest(@, interest_rate)]
                      ELSE accounts[i]]
    /\ Begin("add_interest_to_savings", ReturnNone)
    /\ pc' = "add_interest_to_savings:save_accounts"
    /\ nops' = nops + 1
    /\ naccrue' = naccrue + 1
    /\ UNCHANGED <<customers, transactions, interest_rate, disk, clock>>

\* mutant: create_account does not call save_customers
AfterWrite_SkipsCustomers(at) ==
    CASE at = "make_transaction:save_accounts" -> "make_transaction:save_transactions"
      [] OTHER -> "idle"

\* The statement an operation continues with after the write it stands at
AfterWrite(at) ==
    CASE at = "create_account:save_accounts" -> "create_account:save_customers"
      [] at = "make_transaction:save_accounts" -> "make_transaction:save_transactions"
      [] OTHER -> "idle"

\* self.save_customers(), as called by create_customer and create_account
SaveCustomers ==
    /\ pc \in {"create_customer:save_customers", "create_account:save_customers"}
    /\ customers_file' = save_customers(customers)
    /\ writes' = Append(writes, "customers.json")
    /\ pc' = AfterWrite(pc)
    /\ UNCHANGED <<memory, interest_rate, accounts_file, transactions_file, result,
                   clock, nops, naccrue>>

\* mutant: create_account does not call save_accounts
SaveAccounts_NotInCreateAccount ==
    /\ pc \in {"create_account:save_accounts", "make_transaction:save_accounts",
               "add_interest_to_savings:save_accounts"}
    /\ accounts_file' = IF pc = "create_account:save_accounts" THEN accounts_file
                        ELSE save_accounts(accounts, interest_rate)
    /\ writes' = IF pc = "create_account:save_accounts" THEN writes
                 ELSE Append(writes, "accounts.json")
    /\ pc' = AfterWrite(pc)
    /\ UNCHANGED <<memory, interest_rate, customers_file, transactions_file, result,
                   clock, nops, naccrue>>

\* self.save_accounts(), as called by create_account, make_transaction and
\* add_interest_to_savings
SaveAccounts ==
    /\ pc \in {"create_account:save_accounts", "make_transaction:save_accounts",
               "add_interest_to_savings:save_accounts"}
    /\ accounts_file' = save_accounts(accounts, interest_rate)
    /\ writes' = Append(writes, "accounts.json")
    /\ pc' = AfterWrite(pc)
    /\ UNCHANGED <<memory, interest_rate, customers_file, transactions_file, result,
                   clock, nops, naccrue>>

\* self.save_transactions(), as called by make_transaction
SaveTransactions ==
    /\ pc = "make_transaction:save_transactions"
    /\ transactions_file' = save_transactions(transactions)
    /\ writes' = Append(writes, "transactions.json")
    /\ pc' = AfterWrite(pc)
    /\ UNCHANGED <<memory, interest_rate, customers_file, accounts_file, result,
                   clock, nops, naccrue>>

\* The process ends (at any point) and main() constructs a new BankSystem
Restart ==
    /\ nops < MaxOps
    /\ nops' = IF pc # "idle" THEN nops + 1 ELSE nops
    /\ customers' = load_customers(customers_file)
    /\ accounts' = load_accounts(accounts_file).accounts
    /\ interest_rate' = load_accounts(accounts_file).interest_rate
    /\ transactions' = load_transactions(transactions_file, clock)
    /\ pc' = "idle"
    /\ result' = [op |-> "__init__", raised |-> None, value |-> NoValue]
    /\ writes' = <<>>
    /\ UNCHANGED <<disk, clock, naccrue>>

AccountNumbers == {"A" \o ZeroPad(n, 6) : n \in 1..(MaxOps - 2)}
CustomerIds == {"C" \o ZeroPad(n, 4) : n \in 1..(MaxOps - 1)}

Next ==
    \/ \E name \in Names, address \in Addresses, contact \in Contacts :
           create_customer(name, address, contact)
    \/ \E customer_id \in CustomerIds, args \in CreateAccountArgs :
           create_account(customer_id, args[1], args[2], args[3])
    \/ \E account_number \in AccountNumbers, args \in MakeTransactionArgs :
           make_transaction(account_number, args[1], args[2])
    \/ \E account_number \in AccountNumbers : check_balance(account_number)
    \/ \E account_number \in AccountNumbers : transaction_history(account_number)
    \/ add_interest_to_savings
    \/ SaveCustomers
    \/ SaveAccounts
    \/ SaveTransactions
    \/ Restart

Spec == Init /\ [][Next]_vars

SpecStore == InitStore /\ [][Next]_vars

----------------------------------------------------------------------------
(* Vocabulary of the properties *)

\* A step that is a call of operation op
IsCall(op) == pc = "idle" /\ result'.op = op

Succeeded == result'.raised = None
Failed == result'.raised \in ValidationErrors

\* The lowest balance the variant allows
Floor(acc) == IF acc.cls = "CurrentAccount" THEN 0 - acc.overdraw_limit ELSE 0
AtOrAboveFloor(acc) == acc.balance >= Floor(acc)

Objects(d) == {d[i].v : i \in DOMAIN d}

\* The interest of every accrual is a whole number of money units
InterestExact ==
    \A acc \in Objects(accounts) :
        acc.cls = "SavingAccount" /\ naccrue < MaxAccrue
            => (acc.balance * interest_rate) % 100 = 0

----------------------------------------------------------------------------
(* C1: a deposit or withdraw call, applied or rejected, on an account whose *)
(* balance is at or above its variant's floor (0 for Basic and Savings,     *)
(* -overdraw_limit for Current) leaves the balance at or above that floor.  *)

C1_FloorPreserved ==
    [][IsCall("make_transaction")
         => /\ DOMAIN accounts' = DOMAIN accounts
            /\ \A i \in DOMAIN accounts :
                 AtOrAboveFloor(accounts[i].v) => AtOrAboveFloor(accounts'[i].v)]_vars

\* a Basic account drawn down to exactly its floor by an applied withdrawal
C1_Witness ==
    /\ pc = "idle"
    /\ result.op = "make_transaction" /\ result.raised = None
    /\ \E acc \in Objects(accounts) :
         /\ acc.cls = "Account" /\ acc.balance = 0
         /\ \E i \in DOMAIN transactions :
              /\ transactions[i].account_number = acc.account_number
              /\ transactions[i].transaction_type = "withdrawal"

----------------------------------------------------------------------------
(* C2: in every reachable state every Savings/Basic account has balance    *)
(* >= 0 and every Current account has overdraw_limit >= 0 and balance >=   *)
(* -overdraw_limit, already right after create_account.                    *)

C2_BalancesAtOrAboveFloor ==
    \A acc \in Objects(accounts) :
        /\ AtOrAboveFloor(acc)
        /\ (acc.cls = "CurrentAccount" => acc.overdraw_limit >= 0)

----------------------------------------------------------------------------
(* C3: an operation that fails with a validation error leaves customers,   *)
(* accounts (every balance) and transactions as they were, and writes no   *)
(* file.                                                                   *)

C3_FailureChangesNothing ==
    [][(/\ IsCall("create_account") \/ IsCall("make_transaction") \/ IsCall("check_balance")
        /\ Failed)
         => /\ UNCHANGED <<memory, interest_rate, disk>>
            /\ writes' = <<>>
            /\ pc' = "idle"]_vars

\* a withdrawal rejected for insufficient funds, after an earlier transaction
C3_Witness ==
    /\ result.op = "make_transaction"
    /\ result.raised = InsufficientFunds
    /\ Len(transactions) >= 1
    /\ writes = <<>>

----------------------------------------------------------------------------
(* C4: a successful make_transaction(account_number, type, amount) appends *)
(* exactly one Transaction carrying those three arguments, changes that    *)
(* account's balance by +amount (deposit) or -amount (withdrawal) and no   *)
(* other account's balance.                                                *)

C4_TransactionEffect ==
    [][IsCall("make_transaction") /\ Succeeded =>
       \A account_number \in AccountNumbers, args \in MakeTransactionArgs :
         make_transaction(account_number, args[1], args[2])
           => /\ Len(transactions') = Len(transactions) + 1
              /\ SubSeq(transactions', 1, Len(transactions)) = transactions
              /\ LET t == transactions'[Len(transactions')]
                 IN /\ t.account_number = account_number
                    /\ t.transaction_type = args[1]
                    /\ t.amount = args[2]
              /\ DOMAIN accounts' = DOMAIN accounts
              /\ \A i \in DOMAIN accounts :
                   IF accounts[i].k = account_number
                   THEN accounts'[i].v.balance =
                            accounts[i].v.balance
                              + (IF args[1] = "deposit" THEN args[2] ELSE 0 - args[2])
                   ELSE accounts'[i] = accounts[i]]_vars

\* a withdrawal applied to the second of two accounts
C4_Witness ==
    /\ Len(accounts) = 2
    /\ Len(transactions) = 1
    /\ transactions[1].account_number = "A000002"
    /\ transactions[1].transaction_type = "withdrawal"
    /\ accounts[1].v.balance # accounts[2].v.balance
    /\ pc = "idle"

----------------------------------------------------------------------------
(* C5: a withdrawal of a > 0 is accepted exactly when a <= balance (Basic,  *)
(* Savings) or a <= balance + overdraw_limit (Current), and otherwise      *)
(* rejected with "Insufficient funds." respectively "Withdrawal exceeds    *)
(* overdraw limit."; a Current account with balance 0 and limit 50 accepts *)
(* a withdrawal of 40 (balance -40), then rejects 20, then accepts 10 and  *)
(* stands at exactly -50.                                                  *)

BalanceAfter(account_number) == DictGet(accounts', account_number).balance

C5_WithdrawAcceptance ==
    [][IsCall("make_transaction") =>
       \A account_number \in Keys(accounts), a \in {x \in WithdrawalAmounts : x > 0} :
         make_transaction(account_number, "withdrawal", a)
           => LET acc == DictGet(accounts, account_number)
                  scenario == /\ acc.cls = "CurrentAccount"
                              /\ acc.overdraw_limit = Money(5)
              IN /\ IF acc.cls = "CurrentAccount"
                    THEN /\ Succeeded <=> (a <= acc.balance + acc.overdraw_limit)
                         /\ (~Succeeded) => (result'.raised = OverdrawLimitExceeded)
                    ELSE /\ Succeeded <=> (a <= acc.balance)
                         /\ (~Succeeded) => (result'.raised = InsufficientFunds)
                 /\ (scenario /\ acc.balance = 0 /\ a = Money(4))
                      => Succeeded /\ BalanceAfter(account_number) = 0 - Money(4)
                 /\ (scenario /\ acc.balance = 0 - Money(4) /\ a = Money(2))
                      => /\ result'.raised = OverdrawLimitExceeded
                         /\ BalanceAfter(account_number) = 0 - Money(4)
                 /\ (scenario /\ acc.balance = 0 - Money(4) /\ a = Money(1))
                      => Succeeded /\ BalanceAfter(account_number) = 0 - Money(5)]_vars

\* the Current account of the scenario after its two accepted withdrawals
C5_Witness ==
    /\ pc = "idle"
    /\ Len(transactions) = 2
    /\ transactions[1].amount = Money(4) /\ transactions[2].amount = Money(1)
    /\ \A i \in DOMAIN transactions :
         /\ transactions[i].transaction_type = "withdrawal"
         /\ transactions[i].account_number = "A000001"
    /\ accounts[1].v.cls = "CurrentAccount"
    /\ accounts[1].v.overdraw_limit = Money(5)
    /\ accounts[1].v.balance = 0 - Money(5)

----------------------------------------------------------------------------
(* C6, as claimed: create_account for an existing customer succeeds for    *)
(* each account_type in {savings, current, basic} and constructs the       *)
(* Savings, Current or Basic variant; it fails with "Invalid account       *)
(* type." only for a type outside that set and with "Customer does not     *)
(* exist." for an unknown customer_id.                                     *)
(* C6, as amended: the same with the accepted set {saving, current}, so    *)
(* that 'savings' and 'basic' are rejected and no Basic account is opened. *)

VariantOf(account_type) ==
    CASE account_type \in {"saving", "savings"} -> "SavingAccount"
      [] account_type = "current" -> "CurrentAccount"
      [] OTHER -> "Account"

\* what a create_account call made in the current state does
CreateAccountContract(accepted) ==
    (pc = "idle" /\ nops < MaxOps) =>
      \A customer_id \in CustomerIds,
         account_type \in {"saving", "current", "savings", "basic"} :
        LET made == create_account_checks(customer_id, account_type, Money(10), Money(5))
        IN /\ ENABLED create_account(customer_id, account_type, Money(10), Money(5))
           /\ IF customer_id \notin Keys(customers)
              THEN made.raised = CustomerNotFound
              ELSE IF account_type \in accepted
              THEN made.raised = None /\ made.self.cls = VariantOf(account_type)
              ELSE made.raised = InvalidAccountType

C6_AsClaimed == CreateAccountContract({"savings", "current", "basic"})

C6_SavingAndCurrentOnly == CreateAccountContract({"saving", "current"})

\* one customer holding a Savings and a Current account, both opened by
\* create_account, after a call with another type was refused
C6_Witness ==
    /\ pc = "idle"
    /\ result.op = "create_account" /\ result.raised = InvalidAccountType
    /\ Len(accounts) = 2
    /\ {accounts[1].v.cls, accounts[2].v.cls} = {"SavingAccount", "CurrentAccount"}

----------------------------------------------------------------------------
(* C7: whenever no operation is in progress, a new BankSystem built from   *)
(* the three files holds the customers, accounts and transactions of the   *)
(* running one: same keys in the same order, same class, balance,          *)
(* interest rate and overdraw limit per account, same accounts list per    *)
(* customer, same transactions (id, timestamp, type, amount) in order.     *)

\* what acc.interest_rate evaluates to: the class attribute
InterestRateOf(acc) == interest_rate

C7_RestartRestoresMemory ==
    pc = "idle" =>
      LET loaded == load_accounts(accounts_file)
      IN /\ load_customers(customers_file) = customers
         /\ loaded.accounts = accounts
         /\ \A acc \in Objects(accounts) :
              acc.cls = "SavingAccount" => loaded.interest_rate = InterestRateOf(acc)
         /\ load_transactions(transactions_file, clock) = transactions

\* after a transaction on a store holding a Savings account at rate 0.05 and
\* a Current account with a limit
C7_Witness ==
    /\ pc = "idle"
    /\ result.op = "make_transaction" /\ result.raised = None
    /\ Len(transactions) >= 1
    /\ interest_rate = 5
    /\ \E acc \in Objects(accounts) : acc.cls = "SavingAccount"
    /\ \E acc \in Objects(accounts) :
         acc.cls = "CurrentAccount" /\ acc.overdraw_limit = Money(5)

----------------------------------------------------------------------------
(* C8: loading an accounts file gives every Savings account the            *)
(* interest_rate of its own record, or 0.02 when the record has none,      *)
(* whatever the other records hold, and every Current account its own      *)
(* overdraw_limit, or 0 when the record has none.                          *)

C8_RecordsLoadIndependently ==
    (pc = "idle" /\ result.op = "__init__") =>
      \A i \in DOMAIN accounts_file :
        LET data == accounts_file[i]
            acc == DictGet(accounts, data.account_number)
        IN /\ data.type = "SavingAccount" =>
                InterestRateOf(acc) = IF "interest_rate" \in DOMAIN data
                                      THEN data.interest_rate ELSE DefaultRate
           /\ data.type = "CurrentAccount" =>
                acc.overdraw_limit = IF "overdraw_limit" \in DOMAIN data
                                     THEN data.overdraw_limit ELSE 0

----------------------------------------------------------------------------
(* C9: whenever no operation is in progress, each file holds the           *)
(* serialization of the collection in memory.                              *)

C9_FilesMirrorMemory ==
    pc = "idle" =>
      /\ customers_file = save_customers(customers)
      /\ accounts_file = save_accounts(accounts, interest_rate)
      /\ transactions_file = save_transactions(transactions)

\* after an accrual on a store with a customer, a Savings account in credit
\* and a logged transaction
C9_Witness ==
    /\ pc = "idle"
    /\ result.op = "add_interest_to_savings"
    /\ Len(customers) >= 1
    /\ Len(transactions) >= 1
    /\ \E acc \in Objects(accounts) : acc.cls = "SavingAccount" /\ acc.balance > 0

----------------------------------------------------------------------------
(* C10: at every point, also between the file writes of make_transaction,  *)
(* the accounts file reflects no deposit or withdrawal whose Transaction   *)
(* is not yet in the transactions file: an account with transactions       *)
(* missing from the file is stored with the balance it had before them.    *)

Signed(t) == IF t.transaction_type = "deposit" THEN t.amount ELSE 0 - t.amount

RECURSIVE Net(_, _)
Net(txns, account_number) ==
    IF txns = <<>> THEN 0
    ELSE (IF Head(txns).account_number = account_number THEN Signed(Head(txns)) ELSE 0)
           + Net(Tail(txns), account_number)

NotYetDurable == SubSeq(transactions, Len(transactions_file) + 1, Len(transactions))

C10_BalanceNeverAheadOfLog ==
    \A i \in DOMAIN accounts_file :
      LET data == accounts_file[i] IN
      (\E j \in DOMAIN NotYetDurable :
          NotYetDurable[j].account_number = data.account_number)
        => data.balance = DictGet(accounts, data.account_number).balance
                            - Net(NotYetDurable, data.account_number)

----------------------------------------------------------------------------
(* C11: the transaction log is append-only.  Across every step of an       *)
(* operation and across a restart taken when no operation is in progress   *)
(* the log in memory before the step is a prefix of the log after it       *)
(* (every earlier Transaction with its id, timestamp, account_number, type *)
(* and amount), and only a successful make_transaction lengthens it, by    *)
(* exactly one entry.  Across every step, a process end inside an          *)
(* operation included, the log in transactions.json only grows at its end  *)
(* and is a prefix of the log in memory.                                   *)

IsPrefix(s, t) == Len(s) <= Len(t) /\ SubSeq(t, 1, Len(s)) = s

\* the process ends between two statements of an operation
ProcessEndsInsideOperation == pc # "idle" /\ result'.op = "__init__"

C11_LogAppendOnly ==
    [][/\ IsPrefix(transactions_file, transactions_file')
       /\ IsPrefix(transactions_file', save_transactions(transactions'))
       /\ (~ProcessEndsInsideOperation) =>
             /\ IsPrefix(transactions, transactions')
             /\ IF IsCall("make_transaction") /\ Succeeded
                THEN Len(transactions') = Len(transactions) + 1
                ELSE Len(transactions') = Len(transactions)]_vars

\* a restart that has loaded a log written by an earlier make_transaction
C11_Witness ==
    /\ pc = "idle"
    /\ result.op = "__init__"
    /\ Len(transactions) = 1
    /\ transactions[1].timestamp < clock
    /\ transactions_file = save_transactions(transactions)

----------------------------------------------------------------------------
(* C12: in every reachable state, after restarts too, the transaction at   *)
(* position k of the log (in memory and in transactions.json) has the id   *)
(* T followed by k zero-padded to 8 digits, so the ids are pairwise        *)
(* distinct and increase with the position.                                *)

\* n zeros, n <= 7
Zeros(n) ==
    CASE n = 0 -> "" [] n = 1 -> "0" [] n = 2 -> "00" [] n = 3 -> "000"
      [] n = 4 -> "0000" [] n = 5 -> "00000" [] n = 6 -> "000000" [] n = 7 -> "0000000"

\* the identifier with sequence number k: the letter, then k written in
\* decimal with zeros in front up to width digits
Identifier(letter, k, width) == letter \o Zeros(width - Len(ToString(k))) \o ToString(k)

TransactionIdAt(k) == Identifier("T", k, 8)

C12_TransactionIdsSequential ==
    /\ \A k \in DOMAIN transactions :
         transactions[k].transaction_id = TransactionIdAt(k)
    /\ \A k \in DOMAIN transactions_file :
         transactions_file[k].transaction_id = TransactionIdAt(k)
    /\ \A j, k \in DOMAIN transactions :
         j # k => transactions[j].transaction_id # transactions[k].transaction_id

\* two transactions logged and written
C12_Witness ==
    /\ pc = "idle"
    /\ Len(transactions) = 2
    /\ Len(transactions_file) = 2
    /\ transactions[2].transaction_id = "T00000002"

----------------------------------------------------------------------------
(* C13: a successful create_customer or create_account returns an          *)
(* identifier that was not a key of its collection, adds exactly one entry *)
(* at the end and leaves every earlier entry under its key with its        *)
(* identifier; no step of an operation and no restart between operations   *)
(* removes a key, and no step at all removes a record from customers.json  *)
(* or accounts.json.                                                       *)

FileKeys(file, field) == {file[i][field] : i \in DOMAIN file}

C13_FreshIdentifiers ==
    [][/\ (IsCall("create_customer") /\ Succeeded) =>
             /\ result'.value.id \notin Keys(customers)
             /\ Len(customers') = Len(customers) + 1
             /\ \A i \in DOMAIN customers : customers'[i] = customers[i]
             /\ customers'[Len(customers')].k = result'.value.id
             /\ customers'[Len(customers')].v.customer_id = result'.value.id
             /\ accounts' = accounts
       /\ (IsCall("create_account") /\ Succeeded) =>
             /\ result'.value.id \notin Keys(accounts)
             /\ Len(accounts') = Len(accounts) + 1
             /\ \A i \in DOMAIN accounts : accounts'[i] = accounts[i]
             /\ accounts'[Len(accounts')].k = result'.value.id
             /\ accounts'[Len(accounts')].v.account_number = result'.value.id
             /\ DOMAIN customers' = DOMAIN customers
             /\ \A i \in DOMAIN customers :
                  /\ customers'[i].k = customers[i].k
                  /\ customers'[i].v.customer_id = customers[i].v.customer_id
       /\ (~ProcessEndsInsideOperation) =>
             /\ Keys(customers) \subseteq Keys(customers')
             /\ Keys(accounts) \subseteq Keys(accounts')
       /\ FileKeys(customers_file, "customer_id") \subseteq FileKeys(customers_file', "customer_id")
       /\ FileKeys(accounts_file, "account_number")
             \subseteq FileKeys(accounts_file', "account_number")
       /\ \A i \in DOMAIN customers' : customers'[i].k = customers'[i].v.customer_id
       /\ \A i \in DOMAIN accounts' : accounts'[i].k = accounts'[i].v.account_number]_vars

\* the second account of the store opened for the second customer
C13_Witness ==
    /\ pc = "idle"
    /\ result.op = "create_account" /\ result.raised = None
    /\ result.value.id = "A000002"
    /\ Keys(customers) = {"C0001", "C0002"}
    /\ Keys(accounts) = {"A000001", "A000002"}
    /\ DictGet(accounts, "A000002").customer_id = "C0002"

----------------------------------------------------------------------------
(* C14: in every reachable state every account number in a customer's      *)
(* accounts list is a key of accounts and the list is in the order in      *)
(* which the accounts were opened; a successful create_account appends the *)
(* new number at the end of the owner's list and changes no other          *)
(* customer's list.                                                        *)

\* position of an account in the accounts dict, which is in opening order
Opened(account_number) == CHOOSE i \in DOMAIN accounts : accounts[i].k = account_number

AccountsListsResolve ==
    \A c \in Objects(customers) :
        /\ \A k \in DOMAIN c.accounts : c.accounts[k] \in Keys(accounts)
        /\ \A j, k \in DOMAIN c.accounts :
             j < k => Opened(c.accounts[j]) < Opened(c.accounts[k])

C14_AccountsListsInOpeningOrder ==
    /\ []AccountsListsResolve
    /\ [][(IsCall("create_account") /\ Succeeded) =>
            LET account_number == result'.value.id
                owner == DictGet(accounts', account_number).customer_id
            IN /\ DOMAIN customers' = DOMAIN customers
               /\ \A i \in DOMAIN customers :
                    customers'[i].v.accounts =
                        IF customers[i].k = owner
                        THEN Append(customers[i].v.accounts, account_number)
                        ELSE customers[i].v.accounts]_vars

\* a customer with two accounts beside a customer with none
C14_Witness ==
    /\ pc = "idle"
    /\ Len(customers) = 2
    /\ \E c \in Objects(customers) : c.accounts = <<"A000001", "A000002">>
    /\ \E c \in Objects(customers) : c.accounts = <<>>

----------------------------------------------------------------------------
(* C20: at every point, also between the two file writes of create_account *)
(* (accounts.json first, customers.json second), every account number      *)
(* listed in a record of customers.json is the number of a record of       *)
(* accounts.json, so that a BankSystem constructed from the files at that  *)
(* point holds customers whose accounts lists name accounts it holds.      *)

C20_PersistedListsResolve ==
    /\ \A i \in DOMAIN customers_file :
         \A k \in DOMAIN customers_file[i].accounts :
            customers_file[i].accounts[k] \in FileKeys(accounts_file, "account_number")
    /\ LET custs == load_customers(customers_file)
           accs == load_accounts(accounts_file).accounts
       IN \A c \in Objects(custs) :
            \A k \in DOMAIN c.accounts : c.accounts[k] \in Keys(accs)

\* between the two writes of the create_account that opens a second account
C20_Witness ==
    /\ pc = "create_account:save_customers"
    /\ writes = <<"accounts.json">>
    /\ Len(accounts_file) = 2
    /\ Len(customers_file) = 1
    /\ customers_file[1].accounts = <<"A000001">>

----------------------------------------------------------------------------
(* C15: an add_interest_to_savings call that comes straight after another  *)
(* one finds a Savings account, which stood at b before the first call, at *)
(* b + b*r and adds (b + b*r)*r to it, which leaves b*(1+r)^2 and, unless  *)
(* b or r is 0, not b*(1+2*r).                                             *)

\* x * r with r a percentage, and that the product is a whole number of units
Times(x, r) == (x * r) \div 100
IsExact(x, r) == (x * r) % 100 = 0

C15_AccrualCompounds ==
    [][(IsCall("add_interest_to_savings") /\ result.op = "add_interest_to_savings") =>
        \A i \in DOMAIN accounts :
          accounts[i].v.cls = "SavingAccount" =>
            LET r == interest_rate
                after1 == accounts[i].v.balance
                after2 == accounts'[i].v.balance
                b == (after1 * 100) \div (100 + r)
            IN /\ IsExact(b, r) /\ after1 = b + Times(b, r)
               /\ IsExact(after1, r) /\ after2 - after1 = Times(b + Times(b, r), r)
               /\ IsExact(b, 100 + r) /\ IsExact(Times(b, 100 + r), 100 + r)
               /\ after2 = Times(Times(b, 100 + r), 100 + r)
               /\ (b # 0 /\ r # 0) => after2 # Times(b, 100 + 2 * r)]_vars

\* a Savings account opened with 100.0 after two accruals at the rate 0.02
C15_Witness ==
    /\ pc = "idle"
    /\ result.op = "add_interest_to_savings"
    /\ naccrue = 2
    /\ interest_rate = 2
    /\ transactions = <<>>
    /\ \E acc \in Objects(accounts) :
         /\ acc.cls = "SavingAccount"
         /\ acc.balance = Times(Times(Money(10), 102), 102)
         /\ acc.balance # Times(Money(10), 104)

----------------------------------------------------------------------------
(* C16: an add_interest_to_savings call applies the interest once to every *)
(* Savings account and changes no other account, leaves customers and the  *)
(* transaction log as they are, and is followed by exactly one file write: *)
(* accounts.json, with all the new balances.                               *)

C16_AccrualEffect ==
    [][/\ IsCall("add_interest_to_savings") =>
             /\ Succeeded
             /\ DOMAIN accounts' = DOMAIN accounts
             /\ \A i \in DOMAIN accounts :
                  accounts'[i] =
                      IF accounts[i].v.cls = "SavingAccount"
                      THEN [accounts[i] EXCEPT
                                !.v.balance = @ + Times(@, interest_rate)]
                      ELSE accounts[i]
             /\ UNCHANGED <<customers, transactions, interest_rate, disk>>
             /\ writes' = <<>>
             /\ pc' = "add_interest_to_savings:save_accounts"
       /\ (pc = "add_interest_to_savings:save_accounts" /\ ~ProcessEndsInsideOperation) =>
             /\ accounts_file' = save_accounts(accounts, interest_rate)
             /\ UNCHANGED <<memory, interest_rate, customers_file, transactions_file>>
             /\ writes' = <<"accounts.json">>
             /\ pc' = "idle"]_vars

\* an accrual, written, on a store with a Savings and a Current account both
\* opened with 100.0
C16_Witness ==
    /\ pc = "idle"
    /\ result.op = "add_interest_to_savings"
    /\ writes = <<"accounts.json">>
    /\ accounts_file = save_accounts(accounts, interest_rate)
    /\ \E acc \in Objects(accounts) :
         acc.cls = "SavingAccount" /\ acc.balance = Times(Money(10), 102)
    /\ \E acc \in Objects(accounts) :
         acc.cls = "CurrentAccount" /\ acc.balance = Money(10)

----------------------------------------------------------------------------
(* C17: transaction_history(account_number) never raises, for a known or   *)
(* an unknown account_number; it returns the transactions of the log with  *)
(* that account_number, in the order of the log (none: the empty list),    *)
(* and changes nothing in memory or in the files.                          *)

RECURSIVE HistoryOf(_, _)
HistoryOf(txns, account_number) ==
    IF txns = <<>> THEN <<>>
    ELSE (IF Head(txns).account_number = account_number THEN <<Head(txns)>> ELSE <<>>)
           \o HistoryOf(Tail(txns), account_number)

C17_HistoryIsFilteredLog ==
    [][IsCall("transaction_history") =>
        /\ Succeeded
        /\ \A account_number \in AccountNumbers :
             transaction_history(account_number)
               => result'.value.history = HistoryOf(transactions, account_number)
        /\ UNCHANGED <<memory, interest_rate, disk>>
        /\ writes' = <<>>
        /\ pc' = "idle"]_vars

\* the history of an account with two logged transactions
C17_Witness ==
    /\ pc = "idle"
    /\ result.op = "transaction_history" /\ result.raised = None
    /\ Len(result.value.history) = 2
    /\ result.value.history[1].transaction_id = "T00000001"
    /\ result.value.history[2].transaction_id = "T00000002"
    /\ result.value.history[1].account_number = result.value.history[2].account_number

----------------------------------------------------------------------------
(* C18: on an empty store, create_customer("Alice", "123 St", "555-0100")  *)
(* returns C0001; create_account for C0001, type 'saving', initial deposit *)
(* 100.0 returns A000001 with balance 100.0; a deposit of 50.0 leaves      *)
(* balance 150.0 and the log holding the single transaction T00000001,     *)
(* deposit, 50.0; a withdrawal of 200.0 then raises "Insufficient funds."  *)
(* and leaves balance and log as they were; add_interest_to_savings at the *)
(* rate 0.02 then leaves balance 153.0.                                    *)

\* the store of the scenario: Alice with her Savings account at the balance
ScenarioStore(balance) ==
    /\ customers = <<[k |-> "C0001",
                      v |-> [customer_id |-> "C0001", name |-> "Alice",
                             address |-> "123 St", contact |-> "555-0100",
                             accounts |-> <<"A000001">>]]>>
    /\ accounts = <<[k |-> "A000001",
                     v |-> [cls |-> "SavingAccount", account_number |-> "A000001",
                            customer_id |-> "C0001", balance |-> balance]]>>
    /\ interest_rate = 2

\* the log of the scenario after the deposit
ScenarioLog ==
    /\ Len(transactions) = 1
    /\ transactions[1].transaction_id = "T00000001"
    /\ transactions[1].account_number = "A000001"
    /\ transactions[1].transaction_type = "deposit"
    /\ transactions[1].amount = Money(5)

C18_Scenario ==
    [][/\ (memory = <<(<<>>), (<<>>), (<<>>)>> /\ create_customer("Alice", "123 St", "555-0100"))
             => /\ result'.raised = None /\ result'.value.id = "C0001"
                /\ Keys(customers') = {"C0001"}
       /\ (/\ Keys(customers) = {"C0001"} /\ accounts = <<>> /\ transactions = <<>>
           /\ DictGet(customers, "C0001").name = "Alice"
           /\ create_account("C0001", "saving", Money(10), 0))
             => /\ result'.raised = None /\ result'.value.id = "A000001"
                /\ ScenarioStore(Money(10))'
       /\ (/\ ScenarioStore(Money(10)) /\ transactions = <<>>
           /\ make_transaction("A000001", "deposit", Money(5)))
             => /\ result'.raised = None /\ result'.value.id = "T00000001"
                /\ ScenarioStore(Money(15))'
                /\ ScenarioLog'
       /\ (/\ ScenarioStore(Money(15)) /\ ScenarioLog
           /\ make_transaction("A000001", "withdrawal", Money(20)))
             => /\ result'.raised = InsufficientFunds
                /\ ScenarioStore(Money(15))'
                /\ transactions' = transactions
       /\ (ScenarioStore(Money(15)) /\ ScenarioLog /\ add_interest_to_savings)
             => /\ ScenarioStore(Money(153) \div 10)'
                /\ transactions' = transactions]_vars

\* the end of the scenario: balance 153.0 in memory and in accounts.json
C18_Witness ==
    /\ pc = "idle"
    /\ result.op = "add_interest_to_savings"
    /\ ScenarioStore(Money(153) \div 10)
    /\ ScenarioLog
    /\ accounts_file[1].balance = Money(153) \div 10
    /\ transactions_file[1].transaction_id = "T00000001"

----------------------------------------------------------------------------
(* C19: ledger conservation.  In every reachable state an account that is  *)
(* not a Savings account, and a Savings account as long as there has been  *)
(* no add_interest_to_savings call, has balance = initial deposit given to *)
(* create_account + its logged deposits - its logged withdrawals.  Stated  *)
(* by steps: create_account leaves the new account with balance minus net  *)
(* logged amount equal to the initial deposit, and no step changes balance *)
(* minus net logged amount of such an account.                             *)

Ledger(accs, txns, account_number) ==
    DictGet(accs, account_number).balance - Net(txns, account_number)

C19_LedgerConservation ==
    [][/\ (IsCall("create_account") /\ Succeeded) =>
             \A customer_id \in CustomerIds, args \in CreateAccountArgs :
               create_account(customer_id, args[1], args[2], args[3])
                 => Ledger(accounts', transactions', result'.value.id) = args[2]
       /\ \A account_number \in Keys(accounts) \cap Keys(accounts') :
             (DictGet(accounts, account_number).cls # "SavingAccount" \/ naccrue' = 0)
               => Ledger(accounts', transactions', account_number)
                    = Ledger(accounts, transactions, account_number)]_vars

====
